---- MODULE Spec2Model ----
(***************************************************************************)
(* Model of the image-crawler MCP server (src/scr/index.ts): the call-tool *)
(* dispatcher, the three tool handlers, the outbound crawl request and the *)
(* scoring helpers.                                                        *)
(*                                                                         *)
(* JavaScript values are tagged records: the arguments arrive as loosely   *)
(* typed JSON, and the handlers' behaviour on absent, null, non-object and *)
(* non-array values is what several properties are about.                  *)
(* JavaScript numbers produced by the handlers are ratios of small         *)
(* integers; they are kept exact as reduced fractions [n, d], with d = 0   *)
(* standing for NaN (0/0).  IEEE division is correctly rounded, so for the *)
(* sizes drawn here two quotients are equal (or ordered) as doubles        *)
(* exactly when the fractions are.                                         *)
(***************************************************************************)
EXTENDS Integers, Sequences, FiniteSets, TLC

VARIABLES
    server,     \* this.server: the SDK server object built by the constructor
    request,    \* the call-tool request being answered: [name, args]
    remote,     \* what the remote endpoint did with the outbound request, if one was sent
    outcome,    \* what the call-tool handler returned or threw
    outbound,   \* the outbound requests sent while answering the request
    argsAfter,  \* the caller's argument object as it stands once the call is over
    prev        \* how the call before this one ended ("none" before the second call)

vars == <<server, request, remote, outcome, outbound, argsAfter, prev>>

----------------------------------------------------------------------------
(* Bounds of the model *)

\* longest image sequence drawn for the analysis and comparison tools
MaxImages == 3
\* alt texts of every length 0..MaxAltLen are drawn for the alt-text score
MaxAltLen == 101
\* one much longer alt text
LongAltLen == 1000

----------------------------------------------------------------------------
(* JavaScript values *)

Undef == [t |-> "undefined"]
Null == [t |-> "null"]
Str(s) == [t |-> "string", v |-> s]
Num(n) == [t |-> "number", v |-> n]
Bool(b) == [t |-> "boolean", v |-> b]
Arr(seq) == [t |-> "array", v |-> seq]
\* an object is a function from its own property names to values
Obj(fields) == [t |-> "object", v |-> fields]

\* ToBoolean, as applied by !x, x || y and x ? a : b
Truthy(x) ==
    CASE x.t = "undefined" -> FALSE
      [] x.t = "null" -> FALSE
      [] x.t = "boolean" -> x.v
      [] x.t = "number" -> x.v # 0
      [] x.t = "string" -> x.v # ""
      [] OTHER -> TRUE

\* x.k throws a TypeError exactly when x is undefined or null
Nullish(x) == x.t \in {"undefined", "null"}

\* x.k for a non-nullish x and a property k other than length
Get(x, k) ==
    IF x.t = "object" /\ k \in DOMAIN x.v THEN x.v[k] ELSE Undef

\* x || y
OrElse(x, y) == IF Truthy(x) THEN x ELSE y

\* const { k = dflt } = args: the default applies to undefined only
WithDefault(x, dflt) == IF x.t = "undefined" THEN dflt ELSE x

----------------------------------------------------------------------------
(* Strings: TLC gives Len, \o and SubSeq on strings *)

CharAt(s, i) == SubSeq(s, i, i)

UpperToLower ==
    [c \in {"A","B","C","D","E","F","G","H","I","J","K","L","M",
            "N","O","P","Q","R","S","T","U","V","W","X","Y","Z"} |->
        CASE c = "A" -> "a" [] c = "B" -> "b" [] c = "C" -> "c" [] c = "D" -> "d"
          [] c = "E" -> "e" [] c = "F" -> "f" [] c = "G" -> "g" [] c = "H" -> "h"
          [] c = "I" -> "i" [] c = "J" -> "j" [] c = "K" -> "k" [] c = "L" -> "l"
          [] c = "M" -> "m" [] c = "N" -> "n" [] c = "O" -> "o" [] c = "P" -> "p"
          [] c = "Q" -> "q" [] c = "R" -> "r" [] c = "S" -> "s" [] c = "T" -> "t"
          [] c = "U" -> "u" [] c = "V" -> "v" [] c = "W" -> "w" [] c = "X" -> "x"
          [] c = "Y" -> "y" [] c = "Z" -> "z"]

LowerChar(c) == IF c \in DOMAIN UpperToLower THEN UpperToLower[c] ELSE c

RECURSIVE LowerFrom(_, _)
LowerFrom(s, i) ==
    IF i > Len(s) THEN "" ELSE LowerChar(CharAt(s, i)) \o LowerFrom(s, i + 1)

\* String.prototype.toLowerCase (ASCII)
ToLowerCase(s) == LowerFrom(s, 1)

\* String.prototype.includes
Includes(s, sub) ==
    \E i \in 1..(Len(s) - Len(sub) + 1) : SubSeq(s, i, i + Len(sub) - 1) = sub

RECURSIVE TrimLeft(_)
TrimLeft(s) ==
    IF Len(s) > 0 /\ CharAt(s, 1) = " " THEN TrimLeft(SubSeq(s, 2, Len(s))) ELSE s

RECURSIVE TrimRight(_)
TrimRight(s) ==
    IF Len(s) > 0 /\ CharAt(s, Len(s)) = " "
    THEN TrimRight(SubSeq(s, 1, Len(s) - 1)) ELSE s

\* String.prototype.trim (spaces)
Trim(s) == TrimRight(TrimLeft(s))

\* a text of n characters
RECURSIVE Filler(_)
Filler(n) ==
    IF n = 0 THEN ""
    ELSE LET h == Filler(n \div 2)
         IN  h \o h \o (IF n % 2 = 1 THEN "x" ELSE "")

----------------------------------------------------------------------------
(* JavaScript numbers computed by the handlers *)

RECURSIVE Gcd(_, _)
Gcd(a, b) == IF b = 0 THEN a ELSE Gcd(b, a % b)

NaN == [n |-> 0, d |-> 0]

IsNaN(x) == x.d = 0

\* the number a / b for integers a, b >= 0.  Every division the handlers do
\* has a zero numerator when its denominator is zero (the sum or count over
\* an empty array), so x / 0 is 0 / 0 = NaN.
Frac(a, b) ==
    IF b = 0 THEN NaN
    ELSE LET g == Gcd(a, b) IN [n |-> a \div g, d |-> b \div g]

Whole(a) == [n |-> a, d |-> 1]

\* x * k for an integer k > 0
Times(x, k) == IF IsNaN(x) THEN NaN ELSE Frac(x.n * k, x.d)

\* x > y: false when either side is NaN
Gt(x, y) == ~IsNaN(x) /\ ~IsNaN(y) /\ x.n * y.d > y.n * x.d

\* Math.abs(x - y)
AbsDiff(x, y) ==
    IF IsNaN(x) \/ IsNaN(y) THEN NaN
    ELSE LET a == x.n * y.d
             b == y.n * x.d
         IN  Frac(IF a >= b THEN a - b ELSE b - a, x.d * y.d)

\* x.length as a number: defined on arrays and strings only, NaN otherwise
LengthNumber(x) == IF x.t \in {"array", "string"} THEN Whole(Len(x.v)) ELSE NaN

----------------------------------------------------------------------------
(* new URL(url): the WHATWG parser without a base URL, for inputs with no   *)
(* credentials, port, IPv6 literal or percent-encoding.                     *)

Alpha ==
    DOMAIN UpperToLower \cup {UpperToLower[c] : c \in DOMAIN UpperToLower}

Digit == {"0", "1", "2", "3", "4", "5", "6", "7", "8", "9"}

SchemeChar == Alpha \cup Digit \cup {"+", "-", "."}

SpecialSchemes == {"http", "https", "ftp", "ws", "wss", "file"}

\* code points a host may not hold (the domain-forbidden ones that can
\* appear before the end of the host)
ForbiddenHostChar == {" ", "<", ">", "[", "]", "^", "|", "%"}

\* the host ends at the first of these, or at the end of the input
HostStop == {"/", "\\", "?", "#"}

\* the index of the first character of s at or after i that is not in set,
\* Len(s) + 1 when there is none
RECURSIVE SkipWhile(_, _, _)
SkipWhile(s, i, set) ==
    IF i <= Len(s) /\ CharAt(s, i) \in set THEN SkipWhile(s, i + 1, set) ELSE i

\* the index of the first character of s at or after i that is in set
RECURSIVE SkipUntil(_, _, _)
SkipUntil(s, i, set) ==
    IF i <= Len(s) /\ CharAt(s, i) \notin set THEN SkipUntil(s, i + 1, set) ELSE i

Failure == [ok |-> FALSE, protocol |-> ""]

ParseURL(s) ==
    IF Len(s) = 0 \/ CharAt(s, 1) \notin Alpha THEN Failure   \* no scheme, no base
    ELSE LET colon == SkipWhile(s, 1, SchemeChar)
         IN  IF colon > Len(s) \/ CharAt(s, colon) # ":" THEN Failure
             ELSE LET scheme == ToLowerCase(SubSeq(s, 1, colon - 1))
                      hostStart == SkipWhile(s, colon + 1, {"/", "\\"})
                      hostEnd == SkipUntil(s, hostStart, HostStop)
                      host == SubSeq(s, hostStart, hostEnd - 1)
                  IN  IF scheme \in SpecialSchemes \ {"file"}
                         /\ (\/ Len(host) = 0
                             \/ \E i \in 1..Len(host) : CharAt(host, i) \in ForbiddenHostChar)
                      THEN Failure
                      ELSE [ok |-> TRUE, protocol |-> scheme \o ":"]

----------------------------------------------------------------------------
(* Scoring helpers *)

marketingKeywords ==
    <<"dashboard", "interface", "analytics", "report", "chart",
      "graph", "widget", "feature", "tool", "platform">>

\* (img.alt || '').toLowerCase(), then the keywords it includes
keywordMatches(img) ==
    LET alt == OrElse(Get(img, "alt"), Str(""))
        altText == ToLowerCase(alt.v)
    IN  Cardinality({k \in 1..Len(marketingKeywords) : Includes(altText, marketingKeywords[k])})

\* scoreAltText with <= at every step
scoreAltTextInclusive(altText) ==
    IF ~Truthy(altText) THEN 0
    ELSE LET length == Len(altText.v)
         IN  IF length <= 10 THEN 2
             ELSE IF length <= 30 THEN 4
             ELSE IF length <= 60 THEN 6
             ELSE IF length <= 100 THEN 8
             ELSE 10

scoreAltText(altText) ==
    IF ~Truthy(altText) THEN 0
    ELSE LET length == Len(altText.v)
         IN  IF length < 10 THEN 2
             ELSE IF length < 30 THEN 4
             ELSE IF length < 60 THEN 6
             ELSE IF length < 100 THEN 8
             ELSE 10

\* reduce((sum, x) => sum + x, 0) over the numbers from index i on
RECURSIVE SumFrom(_, _)
SumFrom(nums, i) ==
    IF i > Len(nums) THEN 0 ELSE nums[i] + SumFrom(nums, i + 1)

AltScoreOf(img) == scoreAltText(Get(img, "alt"))

\* calculateOverallQuality averaging over the images that have alt text
calculateOverallQualityOfDescribed(images) ==
    Frac(SumFrom([i \in 1..Len(images.v) |-> AltScoreOf(images.v[i])], 1),
         Cardinality({i \in 1..Len(images.v) : Truthy(Get(images.v[i], "alt"))}))

calculateOverallQuality(images) ==
    Frac(SumFrom([i \in 1..Len(images.v) |-> AltScoreOf(images.v[i])], 1), Len(images.v))

calculateMarketingScore(images) ==
    LET totalScore == SumFrom([i \in 1..Len(images.v) |-> keywordMatches(images.v[i])], 1)
    IN  Times(Frac(totalScore, Len(images.v)), 2)

getImageFormat(url) ==
    IF Includes(url, ".webp") THEN "WebP"
    ELSE IF Includes(url, ".jpg") \/ Includes(url, ".jpeg") THEN "JPEG"
    ELSE IF Includes(url, ".png") THEN "PNG"
    ELSE IF Includes(url, ".gif") THEN "GIF"
    ELSE IF Includes(url, ".svg") THEN "SVG"
    ELSE "Unknown"

----------------------------------------------------------------------------
(* Returning and throwing *)

Ret(v) == [ret |-> "return", value |-> v]
Throw(e) == [ret |-> "throw", value |-> e]

McpError(code, message) == [cls |-> "McpError", code |-> code, message |-> message]

\* what the runtime throws on a property read of undefined or null, or on a
\* call of something that is not a function
TypeError(message) == [cls |-> "TypeError", code |-> "none", message |-> message]

\* the error an axios call rejects with; response.kind is "response" when
\* the remote answered and error.response is set
AxiosError(message, response) ==
    [cls |-> "AxiosError", code |-> "none", message |-> message, response |-> response]

IsStr(x, s) == x.t = "string" /\ x.v = s

\* `${x}` for the values interpolated into messages
ToStr(x) ==
    CASE x.t = "string" -> x.v
      [] x.t = "undefined" -> "undefined"
      [] x.t = "null" -> "null"
      [] OTHER -> "[object Object]"

\* images.map / filter / reduce with a callback reading img.alt: a TypeError
\* unless images is an array none of whose elements is undefined or null
Iterable(images) ==
    /\ images.t = "array"
    /\ \A i \in 1..Len(images.v) : ~Nullish(images.v[i])

\* img.url.includes(..) and img.hash.substring(..) need strings
HasUrlAndHash(images) ==
    \A i \in 1..Len(images.v) :
        /\ Get(images.v[i], "url").t = "string"
        /\ Get(images.v[i], "hash").t = "string"

\* img.alt?.length || 0
AltLength(img) ==
    LET alt == Get(img, "alt")
    IN  IF alt.t = "string" THEN Len(alt.v) ELSE 0

\* img.alt && img.alt.trim().length > 0
HasAlt(img) ==
    LET alt == Get(img, "alt")
    IN  Truthy(alt) /\ Len(Trim(alt.v)) > 0

\* img.alt && img.alt.length < 30
ShortAlt(img) ==
    LET alt == Get(img, "alt")
    IN  Truthy(alt) /\ Len(alt.v) < 30

getQualityRecommendations(images) ==
    LET noAltText == Cardinality({i \in 1..Len(images.v) : ~HasAlt(images.v[i])})
        shortAltText == Cardinality({i \in 1..Len(images.v) : ShortAlt(images.v[i])})
    IN  [addAltText |-> noAltText, improveAltText |-> shortAltText,
         allGood |-> (noAltText = 0 /\ shortAltText = 0)]

getMarketingRecommendations(scores) ==
    LET weakMarketing == Cardinality({i \in 1..Len(scores) : scores[i] = 0})
        avgScore == Frac(SumFrom(scores, 1), Len(scores))
        low == Gt(Whole(1), avgScore)
    IN  [weak |-> weakMarketing, low |-> low,
         allGood |-> (weakMarketing = 0 /\ ~low)]

----------------------------------------------------------------------------
(* The analyses.  A report is the record of the values its template shows. *)

analyzeImageQuality(images, sourceUrl) ==
    IF ~Iterable(images) THEN Throw(TypeError("images.filter is not a function"))
    ELSE LET totalImages == Len(images.v)
             imagesWithAlt == Cardinality({i \in 1..totalImages : HasAlt(images.v[i])})
             altTextQuality == [i \in 1..totalImages |-> AltLength(images.v[i])]
             avgAltLength == Frac(SumFrom(altTextQuality, 1), totalImages)
         IN  Ret([report |-> "Image Quality Analysis",
                  source |-> sourceUrl,
                  totalImages |-> totalImages,
                  imagesWithAlt |-> imagesWithAlt,
                  withAltPercent |-> Times(Frac(imagesWithAlt, totalImages), 100),
                  avgAltLength |-> avgAltLength,
                  perImage |-> [i \in 1..totalImages |->
                                  [altLength |-> AltLength(images.v[i]),
                                   score |-> scoreAltText(Get(images.v[i], "alt"))]],
                  recommendations |-> getQualityRecommendations(images)])

analyzeImageDiversity(images, sourceUrl) ==
    IF ~Iterable(images) THEN Throw(TypeError("images.map is not a function"))
    ELSE LET uniqueHashes == Cardinality({Get(images.v[i], "hash") : i \in 1..Len(images.v)})
             uniqueUrls == Cardinality({Get(images.v[i], "url") : i \in 1..Len(images.v)})
             diversityScore == Times(Frac(uniqueHashes, Len(images.v)), 100)
         IN  Ret([report |-> "Image Diversity Analysis",
                  source |-> sourceUrl,
                  totalImages |-> Len(images.v),
                  uniqueHashes |-> uniqueHashes,
                  uniqueUrls |-> uniqueUrls,
                  score |-> diversityScore,
                  band |-> IF Gt(diversityScore, Whole(90)) THEN "excellent"
                           ELSE IF Gt(diversityScore, Whole(70)) THEN "good"
                           ELSE "poor"])

analyzeMarketingEffectiveness(images, sourceUrl) ==
    IF ~Iterable(images) THEN Throw(TypeError("images.map is not a function"))
    ELSE LET marketingScores == [i \in 1..Len(images.v) |-> keywordMatches(images.v[i])]
             avgScore == Frac(SumFrom(marketingScores, 1), Len(images.v))
         IN  Ret([report |-> "Marketing Effectiveness Analysis",
                  source |-> sourceUrl,
                  score |-> avgScore,
                  outOf |-> Len(marketingKeywords),
                  perImage |-> [i \in 1..Len(images.v) |->
                                  [score |-> marketingScores[i],
                                   assessment |-> IF marketingScores[i] > 2 THEN "strong"
                                                  ELSE IF marketingScores[i] > 0 THEN "some"
                                                  ELSE "weak"]],
                  recommendations |-> getMarketingRecommendations(marketingScores)])

analyzeTechnicalAspects(images, sourceUrl) ==
    IF ~Iterable(images) THEN Throw(TypeError("images.filter is not a function"))
    ELSE IF ~HasUrlAndHash(images) THEN Throw(TypeError("Cannot read properties of undefined"))
    ELSE LET n == Len(images.v)
             s3Images == Cardinality({i \in 1..n : Includes(Get(images.v[i], "url").v, "s3.amazonaws.com")})
             webpImages == Cardinality({i \in 1..n : Includes(Get(images.v[i], "url").v, ".webp")})
             hashDistribution == {SubSeq(Get(images.v[i], "hash").v, 1, 2) : i \in 1..n}
         IN  Ret([report |-> "Technical Analysis",
                  source |-> sourceUrl,
                  totalImages |-> n,
                  s3Images |-> s3Images,
                  s3Percent |-> Times(Frac(s3Images, n), 100),
                  webpImages |-> webpImages,
                  webpPercent |-> Times(Frac(webpImages, n), 100),
                  hashPrefixes |-> Cardinality(hashDistribution),
                  formats |-> [i \in 1..n |-> getImageFormat(Get(images.v[i], "url").v)]])

----------------------------------------------------------------------------
(* The comparisons *)

\* Winner with >= in the first test: a tie goes to the first side
WinnerOrEqual(a, b) == IF ~Gt(b, a) THEN "A" ELSE "B"

\* a > b ? A : b > a ? B : tie
Winner(a, b) == IF Gt(a, b) THEN "A" ELSE IF Gt(b, a) THEN "B" ELSE "tie"

Comparison(title, urlA, urlB, a, b) ==
    [report |-> title, a |-> urlA, b |-> urlB,
     scoreA |-> a, scoreB |-> b,
     difference |-> AbsDiff(a, b),
     winner |-> Winner(a, b)]

\* reads imagesA.length and imagesB.length only
compareQuantity(imagesA, imagesB, urlA, urlB) ==
    Ret(Comparison("Quantity Comparison", urlA, urlB,
                   LengthNumber(imagesA), LengthNumber(imagesB)))

compareQuality(imagesA, imagesB, urlA, urlB) ==
    IF ~Iterable(imagesA) \/ ~Iterable(imagesB)
    THEN Throw(TypeError("images.reduce is not a function"))
    ELSE Ret(Comparison("Quality Comparison", urlA, urlB,
                        calculateOverallQuality(imagesA), calculateOverallQuality(imagesB)))

\* the share of distinct addresses in place of distinct hashes
DiversityOfUrls(images) ==
    Times(Frac(Cardinality({Get(images.v[i], "url") : i \in 1..Len(images.v)}),
               Len(images.v)), 100)

DiversityOf(images) ==
    Times(Frac(Cardinality({Get(images.v[i], "hash") : i \in 1..Len(images.v)}),
               Len(images.v)), 100)

compareDiversity(imagesA, imagesB, urlA, urlB) ==
    IF ~Iterable(imagesA) \/ ~Iterable(imagesB)
    THEN Throw(TypeError("imagesA.map is not a function"))
    ELSE Ret(Comparison("Diversity Comparison", urlA, urlB,
                        DiversityOf(imagesA), DiversityOf(imagesB)))

compareMarketingEffectiveness(imagesA, imagesB, urlA, urlB) ==
    IF ~Iterable(imagesA) \/ ~Iterable(imagesB)
    THEN Throw(TypeError("images.reduce is not a function"))
    ELSE Ret(Comparison("Marketing Effectiveness Comparison", urlA, urlB,
                        calculateMarketingScore(imagesA), calculateMarketingScore(imagesB)))

----------------------------------------------------------------------------
(* The tool handlers *)

\* the handler's return value: one text content block
Content(text) == [content |-> <<[type |-> "text", text |-> text]>>]

LAMBDA_ENDPOINT == "https://your-api-gateway-url.amazonaws.com/prod"

\* the wait allowed to the outbound call, in milliseconds
timeout == 120000

\* the status the catch block of crawlSaasImages tests for
BadRequest == 400

\* the report built from response.data; a TypeError when data or data.images
\* is undefined or null, when data.images has no map, or when an element of
\* it is undefined or null
crawlReport(data, force_refresh) ==
    IF Nullish(data) THEN Throw(TypeError("Cannot read properties of null (reading 'source_url')"))
    ELSE IF Nullish(Get(data, "images")) THEN Throw(TypeError("Cannot read properties of undefined (reading 'length')"))
    ELSE IF ~Iterable(Get(data, "images")) THEN Throw(TypeError("data.images.map is not a function"))
    ELSE Ret(Content([report |-> "Successfully crawled",
                      source |-> Get(data, "source_url"),
                      found |-> Len(Get(data, "images").v),
                      generated_at |-> Get(data, "generated_at"),
                      force_refresh |-> force_refresh,
                      images |-> [i \in 1..Len(Get(data, "images").v) |->
                                    OrElse(Get(Get(data, "images").v[i], "alt"), Str("No alt text"))],
                      raw |-> data]))

\* crawlCatch treating every client-error status as a bad request
crawlCatchAnyClientError(error) ==
    IF /\ error.cls = "AxiosError"
       /\ error.response.kind = "response"
       /\ error.response.status \in 400..499
    THEN LET errorData == error.response.data
         IN  IF Nullish(errorData)
             THEN Throw(TypeError("Cannot read properties of null (reading 'error')"))
             ELSE Throw(McpError("InvalidParams",
                    "Crawling failed: " \o ToStr(Get(errorData, "error"))
                    \o (IF Truthy(Get(errorData, "details"))
                        THEN "\nDetails: " \o ToStr(Get(errorData, "details"))
                        ELSE "")))
    ELSE Throw(McpError("InternalError", "Failed to crawl website: " \o error.message))

\* the catch block around the outbound call
crawlCatch(error) ==
    IF /\ error.cls = "AxiosError"
       /\ error.response.kind = "response"
       /\ error.response.status = BadRequest
    THEN LET errorData == error.response.data
         IN  IF Nullish(errorData)
             THEN Throw(TypeError("Cannot read properties of null (reading 'error')"))
             ELSE Throw(McpError("InvalidParams",
                    "Crawling failed: " \o ToStr(Get(errorData, "error"))
                    \o (IF Truthy(Get(errorData, "details"))
                        THEN "\nDetails: " \o ToStr(Get(errorData, "details"))
                        ELSE "")))
    ELSE Throw(McpError("InternalError", "Failed to crawl website: " \o error.message))

\* axios.post: resolves on a 2xx status, rejects otherwise
axiosPost(remoteResult) ==
    IF remoteResult.kind = "response" /\ remoteResult.status \in 200..299
    THEN Ret(remoteResult)
    ELSE IF remoteResult.kind = "response"
    THEN Throw(AxiosError("Request failed with status code", remoteResult))
    ELSE IF remoteResult.kind = "timeout"
    THEN Throw(AxiosError("timeout of 120000ms exceeded", remoteResult))
    ELSE Throw(AxiosError("connect ECONNREFUSED", remoteResult))

\* postCrawl with a second attempt after a timeout
postCrawlRetrying(url, force_refresh, remoteResult) ==
    LET post == [endpoint |-> LAMBDA_ENDPOINT,
                 body |-> [url |-> url, force_refresh |-> force_refresh],
                 timeout |-> timeout]
        response == axiosPost(remoteResult)
        built == IF response.ret = "throw" THEN response
                 ELSE crawlReport(response.value.data, force_refresh)
    IN  [res |-> IF built.ret = "throw" THEN crawlCatch(built.value) ELSE built,
         sent |-> IF remoteResult.kind = "timeout" THEN <<post, post>> ELSE <<post>>]

\* the try block of crawlSaasImages and its catch, for a url that passed
\* validation: one axios.post, then the report or the mapped error.
\* res: what is returned or thrown; sent: the outbound requests made
postCrawl(url, force_refresh, remoteResult) ==
    LET post == [endpoint |-> LAMBDA_ENDPOINT,
                 body |-> [url |-> url, force_refresh |-> force_refresh],
                 timeout |-> timeout]
        response == axiosPost(remoteResult)
        built == IF response.ret = "throw" THEN response
                 ELSE crawlReport(response.value.data, force_refresh)
    IN  [res |-> IF built.ret = "throw" THEN crawlCatch(built.value) ELSE built,
         sent |-> <<post>>]

crawlSaasImages(args, remoteResult) ==
    IF Nullish(args)
    THEN [res |-> Throw(TypeError("Cannot destructure property 'url'")), sent |-> <<>>]
    ELSE
    LET url == Get(args, "url")
        force_refresh == WithDefault(Get(args, "force_refresh"), Bool(FALSE))
    IN  IF ~Truthy(url) \/ url.t # "string"
        THEN [res |-> Throw(McpError("InvalidParams", "URL is required and must be a string")),
              sent |-> <<>>]
        ELSE IF ~ParseURL(url.v).ok \/ ParseURL(url.v).protocol \notin {"http:", "https:"}
        THEN [res |-> Throw(McpError("InvalidParams",
                        "Invalid URL format. Must start with http:// or https://")),
              sent |-> <<>>]
        ELSE postCrawl(url, force_refresh, remoteResult)

analyzeCrawlResults(args) ==
    IF Nullish(args) THEN Throw(TypeError("Cannot destructure property 'results'"))
    ELSE
    LET results == Get(args, "results")
        focus == WithDefault(Get(args, "focus"), Str("quality"))
    IN  IF ~Truthy(results) \/ ~Truthy(Get(results, "images"))
        THEN Throw(McpError("InvalidParams", "Results object with images array is required"))
        ELSE LET images == Get(results, "images")
                 sourceUrl == OrElse(Get(results, "source_url"), Str("Unknown"))
                 analysis ==
                    CASE IsStr(focus, "quality") -> analyzeImageQuality(images, sourceUrl)
                      [] IsStr(focus, "diversity") -> analyzeImageDiversity(images, sourceUrl)
                      [] IsStr(focus, "marketing") -> analyzeMarketingEffectiveness(images, sourceUrl)
                      [] IsStr(focus, "technical") -> analyzeTechnicalAspects(images, sourceUrl)
                      [] OTHER -> Throw(McpError("InvalidParams", "Invalid focus type"))
             IN  IF analysis.ret = "throw" THEN analysis ELSE Ret(Content(analysis.value))

\* x?.images
OptImages(x) == IF Nullish(x) THEN Undef ELSE Get(x, "images")

compareImageSets(args) ==
    IF Nullish(args) THEN Throw(TypeError("Cannot destructure property 'website_a'"))
    ELSE
    LET website_a == Get(args, "website_a")
        website_b == Get(args, "website_b")
        comparison_type == WithDefault(Get(args, "comparison_type"), Str("quality"))
    IN  IF ~Truthy(OptImages(website_a)) \/ ~Truthy(OptImages(website_b))
        THEN Throw(McpError("InvalidParams", "Both websites must have images arrays"))
        ELSE LET imagesA == Get(website_a, "images")
                 imagesB == Get(website_b, "images")
                 urlA == OrElse(Get(website_a, "source_url"), Str("Website A"))
                 urlB == OrElse(Get(website_b, "source_url"), Str("Website B"))
                 comparison ==
                    CASE IsStr(comparison_type, "quantity") ->
                            compareQuantity(imagesA, imagesB, urlA, urlB)
                      [] IsStr(comparison_type, "quality") ->
                            compareQuality(imagesA, imagesB, urlA, urlB)
                      [] IsStr(comparison_type, "diversity") ->
                            compareDiversity(imagesA, imagesB, urlA, urlB)
                      [] IsStr(comparison_type, "marketing_effectiveness") ->
                            compareMarketingEffectiveness(imagesA, imagesB, urlA, urlB)
                      [] OTHER -> Throw(McpError("InvalidParams", "Invalid comparison type"))
             IN  IF comparison.ret = "throw" THEN comparison ELSE Ret(Content(comparison.value))

----------------------------------------------------------------------------
(* The tool registry and the call-tool request handler *)

tools ==
    [crawl_saas_images |-> [required |-> {"url"}, enum |-> {}, default |-> ""],
     analyze_crawl_results |->
        [required |-> {"results"},
         enum |-> {"quality", "diversity", "marketing", "technical"},
         default |-> "quality"],
     compare_image_sets |->
        [required |-> {"website_a", "website_b"},
         enum |-> {"quantity", "quality", "diversity", "marketing_effectiveness"},
         default |-> "quality"]]

\* the switch on the tool name, inside the try block
Switch(name, args, remoteResult) ==
    CASE name = "crawl_saas_images" -> crawlSaasImages(args, remoteResult)
      [] name = "analyze_crawl_results" -> [res |-> analyzeCrawlResults(args), sent |-> <<>>]
      [] name = "compare_image_sets" -> [res |-> compareImageSets(args), sent |-> <<>>]
      [] OTHER -> [res |-> Throw(McpError("MethodNotFound", "Unknown tool: " \o name)),
                   sent |-> <<>>]

\* Rethrow wrapping every error, protocol errors included
RethrowWrapped(error) ==
    McpError("InternalError", "Tool execution failed: " \o error.cls \o ": " \o error.message)

\* the catch block: a protocol error is rethrown, anything else is wrapped
Rethrow(error) ==
    IF error.cls = "McpError" THEN error
    ELSE McpError("InternalError", "Tool execution failed: " \o error.cls \o ": " \o error.message)

\* what the call-tool request handler answers: a result or a protocol error
Answer(name, args, remoteResult) ==
    LET h == Switch(name, args, remoteResult)
    IN  IF h.res.ret = "return"
        THEN [kind |-> "result", result |-> h.res.value]
        ELSE [kind |-> "error", error |-> Rethrow(h.res.value)]

----------------------------------------------------------------------------
(* The inputs drawn *)

Image(url, alt, hash) ==
    Obj([url |-> Str(url), alt |-> Str(alt),
         landing_page |-> Str("http://a.com"), hash |-> Str(hash)])

\* an image whose alt property is missing
ImageNoAlt(url, hash) ==
    Obj([url |-> Str(url), landing_page |-> Str("http://a.com"), hash |-> Str(hash)])

\* the images the sequences are cut from: alt texts of several lengths and
\* keyword counts, a missing and an empty alt text, repeated hashes
Catalogue ==
    <<Image("https://cdn.s3.amazonaws.com/1.webp", "Dashboard", "aa11"),
      Image("http://a.com/2.png", "", "aa11"),
      Image("http://a.com/3.jpg", "Analytics report chart tool", "bb22"),
      ImageNoAlt("http://a.com/4.gif", "cc33"),
      Image("http://a.com/5.webp", "PLATFORM feature", "bb22"),
      Image("http://a.com/6.svg", "interface widget graph for the team", "ab44")>>

\* the non-empty image sequences: runs of at most MaxImages consecutive images
ImageSeqs ==
    {SubSeq(Catalogue, i, j) : <<i, j>> \in
        {p \in (1..Len(Catalogue)) \X (1..Len(Catalogue)) :
            p[1] <= p[2] /\ p[2] - p[1] < MaxImages}}

CrawlResultSet(images) ==
    Obj([source_url |-> Str("http://a.com"),
         generated_at |-> Str("2024-01-01T00:00:00Z"),
         images |-> images])

\* result sets with an images array, the empty one included
ResultSets == {CrawlResultSet(Arr(seq)) : seq \in ImageSeqs \cup {<<>>}}

\* values of results, website_a or website_b that are no such result set
OddResults ==
    {Undef, Null, Num(5),
     Obj([source_url |-> Str("http://a.com")]),
     CrawlResultSet(Null),
     CrawlResultSet(Num(5)),
     CrawlResultSet(Str("abc")),
     CrawlResultSet(Obj([length |-> Num(1)])),
     Obj([images |-> Arr(<<Catalogue[1]>>)])}

\* a property that is undefined is one the object does not have
Args(fields) ==
    Obj([k \in {k \in DOMAIN fields : fields[k].t # "undefined"} |-> fields[k]])

NoArgs == Undef

FocusValues ==
    {Undef, Null, Str("quality"), Str("diversity"), Str("marketing"),
     Str("technical"), Str("bogus"), Str("Quality")}

ComparisonTypes ==
    {Str("quantity"), Str("quality"), Str("diversity"), Str("marketing_effectiveness")}

OddComparisonTypes == {Undef, Null, Str("bogus"), Str("marketing")}

AnalyzeArgs ==
    {NoArgs} \cup
    {Args([results |-> r, focus |-> f]) : r \in ResultSets \cup OddResults, f \in FocusValues}

\* a few websites for the calls with an odd argument
FewWebsites ==
    {Undef, Obj([source_url |-> Str("http://a.com")]),
     CrawlResultSet(Num(5)), CrawlResultSet(Arr(<<>>)),
     CrawlResultSet(Arr(<<Catalogue[1]>>)),
     Obj([images |-> Arr(<<Catalogue[3]>>)])}

CompareArgs ==
    {NoArgs}
    \cup {Args([website_a |-> a, website_b |-> b, comparison_type |-> c]) :
            a \in ResultSets, b \in ResultSets, c \in ComparisonTypes}
    \cup {Args([website_a |-> a, website_b |-> b, comparison_type |-> c]) :
            a \in FewWebsites, b \in FewWebsites,
            c \in ComparisonTypes \cup OddComparisonTypes}

UrlValues ==
    {Undef, Null, Num(5), Bool(TRUE), Obj([href |-> Str("https://x.com")]),
     Str(""), Str("x.com"), Str("/crawl"), Str("http://"), Str("https://a b"),
     Str("ftp://x.com"), Str("mailto:a"), Str("httpx://x.com"),
     Str("https://x.com"), Str("http://x.com/pricing"), Str("HTTP://X.com")}

CrawlArgs ==
    {NoArgs} \cup
    {Args([url |-> u, force_refresh |-> f]) : u \in UrlValues, f \in {Undef, Bool(TRUE)}}

ToolNames == DOMAIN tools

UnknownNames == {"list_images", "crawl", ""}

Response(status, data) == [kind |-> "response", status |-> status, data |-> data]
TimedOut == [kind |-> "timeout", status |-> 0, data |-> Undef]
Refused == [kind |-> "refused", status |-> 0, data |-> Undef]
NoRemote == [kind |-> "none", status |-> 0, data |-> Undef]

RemoteResults ==
    {Response(200, CrawlResultSet(Arr(<<>>))),
     Response(200, CrawlResultSet(Arr(SubSeq(Catalogue, 1, 2)))),
     Response(201, Obj([images |-> Arr(<<Catalogue[4]>>)])),
     Response(200, Null),
     Response(200, Str("<html></html>")),
     Response(200, Obj([source_url |-> Str("http://a.com")])),
     Response(200, CrawlResultSet(Num(5))),
     Response(200, CrawlResultSet(Arr(<<Null>>))),
     Response(400, Obj([error |-> Str("Invalid URL"), details |-> Str("blocked host")])),
     Response(400, Obj([error |-> Str("Invalid URL")])),
     Response(400, Str("Bad Request")),
     Response(400, Null),
     Response(401, Obj([error |-> Str("Unauthorized")])),
     Response(404, Obj([error |-> Str("Not Found"), details |-> Str("no route")])),
     Response(429, Obj([error |-> Str("Too Many Requests")])),
     Response(500, Obj([error |-> Str("Internal Server Error")])),
     TimedOut, Refused}

----------------------------------------------------------------------------
(* The server *)

\* how a call ended: "result" or the code of the error
Ended(o) ==
    IF o.kind = "error" THEN o.error.code ELSE o.kind

\* new Server(..) and setupToolHandlers() in the constructor
Constructed ==
    [name |-> "image-crawler", version |-> "1.0.0",
     capabilities |-> {"tools"},
     handlers |-> {"tools/list", "tools/call"}]

\* no request is being answered
NoRequest == [method |-> "none", name |-> "", args |-> Undef]

Idle == request = NoRequest

Init ==
    /\ server = Constructed
    /\ request = NoRequest
    /\ remote = NoRemote
    /\ outcome = [kind |-> "none"]
    /\ outbound = <<>>
    /\ argsAfter = Undef
    /\ prev = "none"

\* the handler of ListToolsRequestSchema
ListTools ==
    /\ Idle
    /\ request' = [method |-> "tools/list", name |-> "", args |-> Undef]
    /\ outcome' = [kind |-> "result", result |-> [tools |-> tools]]
    /\ UNCHANGED <<server, remote, outbound, argsAfter, prev>>

\* CallTool on a server that remembers a failure: once a call has ended with
\* internal-error, later calls are answered with it
CallToolLatched(name, args, remoteResult) ==
    LET h == Switch(name, args, remoteResult)
    IN  /\ Idle
        /\ request' = [method |-> "tools/call", name |-> name, args |-> args]
        /\ outcome' = IF prev = "InternalError"
                      THEN [kind |-> "error",
                            error |-> McpError("InternalError", "Tool execution failed")]
                      ELSE Answer(name, args, remoteResult)
        /\ outbound' = h.sent
        /\ remote' = IF h.sent = <<>> THEN NoRemote ELSE remoteResult
        /\ argsAfter' = args
        /\ UNCHANGED <<server, prev>>

\* the handler of CallToolRequestSchema, answering one request: requests are
\* handled one at a time.  No handler assigns to a property of its argument
\* or to a field of the server.
CallTool(name, args, remoteResult) ==
    LET h == Switch(name, args, remoteResult)
    IN  /\ Idle
        /\ request' = [method |-> "tools/call", name |-> name, args |-> args]
        /\ outcome' = Answer(name, args, remoteResult)
        /\ outbound' = h.sent
        /\ remote' = IF h.sent = <<>> THEN NoRemote ELSE remoteResult
        /\ argsAfter' = args
        /\ UNCHANGED <<server, prev>>

\* the answer has gone back to the client: what the call allocated is
\* discarded, and the server waits for the next request
Respond ==
    /\ ~Idle
    /\ request' = NoRequest
    /\ outcome' = [kind |-> "none"]
    /\ remote' = NoRemote
    /\ outbound' = <<>>
    /\ argsAfter' = Undef
    /\ prev' = Ended(outcome)
    /\ UNCHANGED server

Crawl == \E args \in CrawlArgs, r \in RemoteResults : CallTool("crawl_saas_images", args, r)
Analyze == \E args \in AnalyzeArgs : CallTool("analyze_crawl_results", args, NoRemote)
Compare == \E args \in CompareArgs : CallTool("compare_image_sets", args, NoRemote)
Unknown ==
    \E name \in UnknownNames, args \in {NoArgs, Args([url |-> Str("https://x.com")])} :
        CallTool(name, args, NoRemote)

Next == ListTools \/ Crawl \/ Analyze \/ Compare \/ Unknown \/ Respond

Spec == Init /\ [][Next]_vars

----------------------------------------------------------------------------
(* The alt-text score on its own: every length up to MaxAltLen, one long   *)
(* text, and a missing alt text                                            *)

AltTexts ==
    {Undef} \cup {Str(Filler(n)) : n \in (0..MaxAltLen) \cup {LongAltLen}}

ScoreAlt ==
    \E altText \in AltTexts :
        /\ request.method \in {"none", "scoreAltText"}
        /\ request' = [method |-> "scoreAltText", name |-> "", args |-> altText]
        /\ outcome' = [kind |-> "value", value |-> scoreAltText(altText)]
        /\ UNCHANGED <<server, remote, outbound, argsAfter, prev>>

SpecScore == Init /\ [][ScoreAlt]_vars

----------------------------------------------------------------------------
(* Vocabulary of the properties *)

\* a call of the named tool has been answered
Answered(name) == request.method = "tools/call" /\ request.name = name

Failed(code) == outcome.kind = "error" /\ outcome.error.code = code

\* the answer is a result holding exactly one text content block
SingleText ==
    /\ outcome.kind = "result"
    /\ Len(outcome.result.content) = 1
    /\ outcome.result.content[1].type = "text"

\* the report in the answer's text block
Report == outcome.result.content[1].text

HasArgs == request.args.t = "object"

Arg(k) == Get(request.args, k)

\* x is an array of n > 0 images, n = 0 for IsEmptyArray
IsEmptyArray(x) == x.t = "array" /\ Len(x.v) = 0
IsImages(x) == x.t = "array" /\ Len(x.v) > 0 /\ \A i \in 1..Len(x.v) : x.v[i].t = "object"

\* the value is one of the enumeration, or omitted
InEnum(x, tool) == x.t = "undefined" \/ (x.t = "string" /\ x.v \in tools[tool].enum)

----------------------------------------------------------------------------
(* C1 *)

EmptyAnalyze ==
    /\ Answered("analyze_crawl_results") /\ HasArgs
    /\ InEnum(Arg("focus"), "analyze_crawl_results")
    /\ IsEmptyArray(OptImages(Arg("results")))

EmptyCompare ==
    /\ Answered("compare_image_sets") /\ HasArgs
    /\ InEnum(Arg("comparison_type"), "compare_image_sets")
    /\ \/ IsEmptyArray(OptImages(Arg("website_a")))
       \/ IsEmptyArray(OptImages(Arg("website_b")))

\* C1: a call of analyze_crawl_results or compare_image_sets whose images
\* sequence is present but empty fails with invalid-params, for every focus
\* and comparison type; it returns no report and fails with no other code.
C1_EmptyImagesRejected ==
    (EmptyAnalyze \/ EmptyCompare) => Failed("InvalidParams")

----------------------------------------------------------------------------
(* C2 *)

\* the url values drawn that are strings parsing as absolute http or https URLs
HttpUrls == {"https://x.com", "http://x.com/pricing", "HTTP://X.com"}

IsHttpUrl(x) == x.t = "string" /\ x.v \in HttpUrls

\* C2 as stated: a crawl_saas_images call whose url is absent, not a string,
\* not an absolute URL or not http/https sends no outbound request and fails
\* with invalid-params; one whose url is an absolute http or https URL sends
\* exactly one outbound request, whatever the remote does.
C2_UrlValidation ==
    Answered("crawl_saas_images") =>
        IF IsHttpUrl(Arg("url"))
        THEN Len(outbound) = 1
        ELSE outbound = <<>> /\ Failed("InvalidParams")

\* C2 amended: the same for a call that has an argument object; a call with
\* no argument object sends no outbound request and fails with internal-error.
C2_UrlValidationGivenArgs ==
    Answered("crawl_saas_images") =>
        /\ HasArgs /\ IsHttpUrl(Arg("url")) =>
              /\ Len(outbound) = 1
              /\ outbound[1].body.url = Arg("url")
              /\ remote.kind # "none"
        /\ HasArgs /\ ~IsHttpUrl(Arg("url")) =>
              /\ outbound = <<>>
              /\ Failed("InvalidParams")
        /\ ~HasArgs => outbound = <<>> /\ Failed("InternalError")

\* a valid url was crawled and the remote timed out: one request, no second try
C2_Witness ==
    /\ Answered("crawl_saas_images")
    /\ Arg("url") = Str("HTTP://X.com")
    /\ remote.kind = "timeout"
    /\ Len(outbound) = 1

----------------------------------------------------------------------------
(* C3 *)

Sent == Answered("crawl_saas_images") /\ Len(outbound) = 1

Success == remote.kind = "response" /\ remote.status \in 200..299

\* the success payload has an images array with no null element
Shaped ==
    /\ remote.data.t = "object"
    /\ Get(remote.data, "images").t = "array"
    /\ \A i \in 1..Len(Get(remote.data, "images").v) : ~Nullish(Get(remote.data, "images").v[i])

\* the remote's error message, with its details when present
RemoteMessage ==
    "Crawling failed: " \o Get(remote.data, "error").v
    \o (IF "details" \in DOMAIN remote.data.v
        THEN "\nDetails: " \o Get(remote.data, "details").v ELSE "")

\* C3 as stated: once the request is out, a shaped success gives a single text
\* block, every client-error status gives invalid-params, and every other
\* failure gives internal-error.
C3_RemoteOutcome ==
    Sent =>
        IF Success /\ Shaped THEN SingleText
        ELSE IF remote.kind = "response" /\ remote.status \in 400..499
        THEN Failed("InvalidParams")
        ELSE Failed("InternalError")

\* C3 amended: status 400 with a body that is not null gives invalid-params
\* carrying the remote's message (and details); every other failure, the other
\* client-error statuses and a 400 with a null body included, gives
\* internal-error; only a shaped success gives a report.
C3_RemoteOutcomeBadRequestOnly ==
    Sent =>
        /\ (Success /\ Shaped) => SingleText /\ Report.found = Len(Get(remote.data, "images").v)
        /\ (remote.kind = "response" /\ remote.status = 400 /\ ~Nullish(remote.data)) =>
              /\ Failed("InvalidParams")
              /\ remote.data.t = "object" => outcome.error.message = RemoteMessage
        /\ ~(Success /\ Shaped)
           /\ ~(remote.kind = "response" /\ remote.status = 400 /\ ~Nullish(remote.data)) =>
              Failed("InternalError")
        /\ ~(Success /\ Shaped) => outcome.kind = "error"

\* the remote answered 400 with an error and details, and the caller got them
C3_Witness ==
    /\ Sent
    /\ remote.kind = "response" /\ remote.status = 400
    /\ remote.data.t = "object" /\ "details" \in DOMAIN remote.data.v
    /\ Failed("InvalidParams")
    /\ outcome.error.message = "Crawling failed: Invalid URL\nDetails: blocked host"

----------------------------------------------------------------------------
(* C4 *)

\* the value was supplied and is not one of the enumeration
NotInEnum(x, tool) == ~InEnum(x, tool)

\* the arguments with property k set to x
WithArg(k, x) ==
    Obj([j \in DOMAIN request.args.v \cup {k} |-> IF j = k THEN x ELSE request.args.v[j]])

\* C4: analyze_crawl_results fails with invalid-params when results is absent,
\* has no images field, images is not a sequence, or focus is supplied and not
\* in the enumeration; compare_image_sets fails with invalid-params when either
\* website's images is absent or comparison_type is supplied and not in the
\* enumeration; an omitted focus or comparison_type behaves as "quality".
C4_ArgumentValidation ==
    /\ Answered("analyze_crawl_results") /\ HasArgs =>
          /\ (\/ Arg("results").t = "undefined"
              \/ OptImages(Arg("results")).t # "array"
              \/ NotInEnum(Arg("focus"), "analyze_crawl_results"))
             => Failed("InvalidParams")
          /\ Arg("focus").t = "undefined" =>
                outcome = Answer(request.name, WithArg("focus", Str("quality")), NoRemote)
    /\ Answered("compare_image_sets") /\ HasArgs =>
          /\ (\/ OptImages(Arg("website_a")).t = "undefined"
              \/ OptImages(Arg("website_b")).t = "undefined"
              \/ NotInEnum(Arg("comparison_type"), "compare_image_sets"))
             => Failed("InvalidParams")
          /\ Arg("comparison_type").t = "undefined" =>
                outcome = Answer(request.name, WithArg("comparison_type", Str("quality")), NoRemote)

----------------------------------------------------------------------------
(* C5 *)

\* what the handler selected by the switch returned or threw
Handled == Switch(request.name, request.args, remote).res

\* C5: every call-tool request ends in a single text content block or in an
\* error whose code is method-not-found, invalid-params or internal-error; an
\* unregistered name gives method-not-found and sends nothing; a protocol
\* error thrown by a handler keeps its code; any other exception, the one
\* raised by a call with no argument object included, gives internal-error.
C5_FourOutcomes ==
    request.method = "tools/call" =>
        /\ \/ SingleText
           \/ Failed("MethodNotFound") \/ Failed("InvalidParams") \/ Failed("InternalError")
        /\ request.name \notin {"crawl_saas_images", "analyze_crawl_results",
                                "compare_image_sets"} =>
              Failed("MethodNotFound") /\ outbound = <<>>
        /\ (Handled.ret = "throw" /\ Handled.value.cls = "McpError") =>
              outcome.kind = "error" /\ outcome.error = Handled.value
        /\ (Handled.ret = "throw" /\ Handled.value.cls # "McpError") =>
              Failed("InternalError")
        /\ (request.name \in ToolNames /\ ~HasArgs) => Failed("InternalError")
        /\ Handled.ret = "return" => SingleText

\* a known tool was called with no argument object and failed with internal-error
C5_Witness ==
    /\ Answered("compare_image_sets")
    /\ ~HasArgs
    /\ Handled.value.cls = "TypeError"
    /\ Failed("InternalError")

----------------------------------------------------------------------------
(* C6 *)

\* C6: the server holds no cross-call state.  Whatever calls came before and
\* however they ended, the server is as it was constructed, it accepts the
\* next call, the answer of analyze_crawl_results and compare_image_sets is
\* the function of the call's arguments alone, and the argument object is
\* as the caller passed it.
C6_NoCrossCallState ==
    /\ server = Constructed
    /\ Idle => /\ ENABLED Crawl
               /\ ENABLED Analyze
               /\ ENABLED Compare
               /\ ENABLED Unknown
    /\ ~Idle => ENABLED Respond
    /\ (Answered("analyze_crawl_results") \/ Answered("compare_image_sets")) =>
          outcome = Answer(request.name, request.args, NoRemote)
    /\ request.method = "tools/call" => argsAfter = request.args

\* a report was returned by the call that followed one that failed with
\* internal-error
C6_Witness ==
    /\ Answered("analyze_crawl_results")
    /\ prev = "InternalError"
    /\ SingleText
    /\ Report.report = "Technical Analysis"

----------------------------------------------------------------------------
(* C7 *)

\* compare_image_sets was answered for two non-empty image sets and a
\* comparison type of the enumeration (or none)
Compared ==
    /\ Answered("compare_image_sets") /\ HasArgs
    /\ IsImages(OptImages(Arg("website_a")))
    /\ IsImages(OptImages(Arg("website_b")))
    /\ InEnum(Arg("comparison_type"), "compare_image_sets")

\* the same call with the two websites exchanged
Exchanged ==
    Obj([k \in DOMAIN request.args.v |->
            IF k = "website_a" THEN Arg("website_b")
            ELSE IF k = "website_b" THEN Arg("website_a")
            ELSE request.args.v[k]])

Flip(w) == IF w = "A" THEN "B" ELSE IF w = "B" THEN "A" ELSE "tie"

\* C7: for two non-empty image sets and one comparison type, the comparison of
\* (A, B) and of (B, A) report the same absolute difference and the winner
\* flips, a tie staying a tie; a side wins only with the strictly greater
\* score, and a tie is declared exactly when the scores are equal.
C7_ComparisonAntisymmetric ==
    Compared =>
        LET back == compareImageSets(Exchanged)
        IN  /\ SingleText
            /\ back.ret = "return"
            /\ back.value.content[1].text.difference = Report.difference
            /\ back.value.content[1].text.winner = Flip(Report.winner)
            /\ Report.winner = "A" <=>
                  Report.scoreA.n * Report.scoreB.d > Report.scoreB.n * Report.scoreA.d
            /\ Report.winner = "B" <=>
                  Report.scoreB.n * Report.scoreA.d > Report.scoreA.n * Report.scoreB.d
            /\ Report.winner = "tie" <=>
                  Report.scoreA.n * Report.scoreB.d = Report.scoreB.n * Report.scoreA.d

\* two sets of different sizes with equal quality scores were declared a tie
C7_Witness ==
    /\ Compared
    /\ Report.report = "Quality Comparison"
    /\ Len(OptImages(Arg("website_a")).v) # Len(OptImages(Arg("website_b")).v)
    /\ Report.winner = "tie"
    /\ Report.scoreA.n > 0

----------------------------------------------------------------------------
(* C8, under SpecScore *)

LengthOf(altText) == IF altText.t = "string" THEN Len(altText.v) ELSE 0

\* the steps of the score
StepOf(length) ==
    CASE length = 0 -> 0
      [] length \in 1..9 -> 2
      [] length \in 10..29 -> 4
      [] length \in 30..59 -> 6
      [] length \in 60..99 -> 8
      [] OTHER -> 10

\* the scores at the ten lengths
AtLength ==
    [l \in {0, 9, 10, 29, 30, 59, 60, 99, 100, 1000} |->
        CASE l = 0 -> 0 [] l = 9 -> 2 [] l \in {10, 29} -> 4
          [] l \in {30, 59} -> 6 [] l \in {60, 99} -> 8 [] OTHER -> 10]

\* C8: the alt-text score is a step function of the alt text's length alone:
\* 0 for a missing or empty text, 2 up to 9, 4 up to 29, 6 up to 59, 8 up to
\* 99, 10 from 100 on; it has the ten listed values and never decreases as
\* the length grows.
C8_AltTextStep ==
    request.method = "scoreAltText" =>
        /\ outcome.value = StepOf(LengthOf(request.args))
        /\ LengthOf(request.args) \in DOMAIN AtLength =>
              outcome.value = AtLength[LengthOf(request.args)]
        /\ \A other \in AltTexts :
              LengthOf(other) >= LengthOf(request.args) =>
                  scoreAltText(other) >= outcome.value

\* an alt text of exactly 100 characters scored 10
C8_Witness ==
    /\ request.method = "scoreAltText"
    /\ LengthOf(request.args) = 100
    /\ outcome.value = 10

----------------------------------------------------------------------------
(* C9 *)

\* the sum of the numbers, from the last to the first
RECURSIVE Total(_)
Total(nums) ==
    IF Len(nums) = 0 THEN 0
    ELSE Total(SubSeq(nums, 1, Len(nums) - 1)) + nums[Len(nums)]

\* the alt-text score of each image
AltScores(images) == [i \in 1..Len(images.v) |-> scoreAltText(Get(images.v[i], "alt"))]

\* score is the mean of the numbers, one per image, and lies in 0..top
MeanOf(score, nums, top) ==
    /\ score.d > 0
    /\ score.n * Len(nums) = Total(nums) * score.d
    /\ score.n >= 0
    /\ score.n <= top * score.d

QualityCompared ==
    /\ Compared
    /\ Arg("comparison_type").t = "undefined" \/ IsStr(Arg("comparison_type"), "quality")

\* C9: for non-empty image sequences, the overall quality score of each side
\* of the quality comparison is the arithmetic mean of the per-image alt-text
\* scores and lies in 0..10.
C9_QualityIsMean ==
    QualityCompared =>
        /\ SingleText
        /\ MeanOf(Report.scoreA, AltScores(OptImages(Arg("website_a"))), 10)
        /\ MeanOf(Report.scoreB, AltScores(OptImages(Arg("website_b"))), 10)

\* a quality comparison of a set holding an image without alt text, whose mean
\* is not a whole number
C9_Witness ==
    /\ QualityCompared
    /\ \E i \in 1..Len(OptImages(Arg("website_a")).v) :
          ~Truthy(Get(OptImages(Arg("website_a")).v[i], "alt"))
    /\ Report.scoreA.d > 1

----------------------------------------------------------------------------
(* C10 *)

\* the keywords, written out again
TenKeywords ==
    {"dashboard", "interface", "analytics", "report", "chart",
     "graph", "widget", "feature", "tool", "platform"}

\* the number of the ten keywords found in the image's alt text, whatever its case
Matches(img) ==
    LET alt == Get(img, "alt")
    IN  IF alt.t # "string" THEN 0
        ELSE Cardinality({k \in TenKeywords : Includes(ToLowerCase(alt.v), k)})

\* score is twice the mean of the per-image keyword matches
TwiceMean(score, images) ==
    /\ score.d > 0
    /\ score.n * Len(images.v)
          = 2 * Total([i \in 1..Len(images.v) |-> Matches(images.v[i])]) * score.d

\* C10: for a non-empty image set, the marketing score in the
\* analyze_crawl_results report with focus marketing, and each side's score in
\* the compare_image_sets report with comparison type marketing_effectiveness,
\* is twice the mean per-image keyword match count.
C10_MarketingScoreTwiceMean ==
    /\ (/\ Answered("analyze_crawl_results") /\ HasArgs
        /\ IsStr(Arg("focus"), "marketing")
        /\ IsImages(OptImages(Arg("results"))))
       => SingleText /\ TwiceMean(Report.score, OptImages(Arg("results")))
    /\ (Compared /\ IsStr(Arg("comparison_type"), "marketing_effectiveness"))
       => /\ SingleText
          /\ TwiceMean(Report.scoreA, OptImages(Arg("website_a")))
          /\ TwiceMean(Report.scoreB, OptImages(Arg("website_b")))

----------------------------------------------------------------------------
(* C11 *)

HashAt(images, i) == Get(images.v[i], "hash")

\* the number of distinct hashes: the positions whose hash occurs at no
\* earlier position
DistinctHashes(images) ==
    Cardinality({i \in 1..Len(images.v) :
                    \A j \in 1..(i - 1) : HashAt(images, j) # HashAt(images, i)})

AllIdentical(images) ==
    \A i, j \in 1..Len(images.v) : HashAt(images, i) = HashAt(images, j)

AllDistinct(images) ==
    \A i, j \in 1..Len(images.v) : i # j => HashAt(images, i) # HashAt(images, j)

\* score is the number of distinct hashes over the number of images, times 100
DiversityIs(score, images) ==
    /\ score.d > 0
    /\ score.n * Len(images.v) = 100 * DistinctHashes(images) * score.d
    /\ AllIdentical(images) => score.n * Len(images.v) = 100 * score.d
    /\ AllDistinct(images) => score.n = 100 * score.d
    /\ score.n > 0
    /\ score.n <= 100 * score.d

DiversityAnalyzed ==
    /\ Answered("analyze_crawl_results") /\ HasArgs
    /\ IsStr(Arg("focus"), "diversity")
    /\ IsImages(OptImages(Arg("results")))

DiversityCompared == Compared /\ IsStr(Arg("comparison_type"), "diversity")

\* scores a and b are the same number
SameScore(a, b) == a.d > 0 /\ b.d > 0 /\ a.n * b.d = b.n * a.d

\* C11: for a non-empty image set of n images, the diversity score is the
\* number of distinct hash values divided by n, times 100: 100/n when all
\* hashes are identical, 100 when all are distinct, always greater than 0 and
\* at most 100; the diversity analysis and the diversity comparison compute
\* the same score for the same set.
C11_DiversityScore ==
    /\ DiversityAnalyzed =>
          LET images == OptImages(Arg("results"))
              compared == compareDiversity(images, images, Undef, Undef)
          IN  /\ SingleText
              /\ DiversityIs(Report.score, images)
              /\ compared.ret = "return"
              /\ SameScore(compared.value.scoreA, Report.score)
              /\ SameScore(compared.value.scoreB, Report.score)
    /\ DiversityCompared =>
          LET imagesA == OptImages(Arg("website_a"))
              imagesB == OptImages(Arg("website_b"))
              analyzedA == analyzeImageDiversity(imagesA, Undef)
              analyzedB == analyzeImageDiversity(imagesB, Undef)
          IN  /\ SingleText
              /\ DiversityIs(Report.scoreA, imagesA)
              /\ DiversityIs(Report.scoreB, imagesB)
              /\ analyzedA.ret = "return" /\ analyzedB.ret = "return"
              /\ SameScore(analyzedA.value.score, Report.scoreA)
              /\ SameScore(analyzedB.value.score, Report.scoreB)

\* a diversity comparison of two images with one hash, scoring 100/2, against
\* a set of images with distinct hashes, scoring 100
C11_Witness ==
    /\ DiversityCompared
    /\ Len(OptImages(Arg("website_a")).v) = 2
    /\ AllIdentical(OptImages(Arg("website_a")))
    /\ Report.scoreA = Frac(50, 1)
    /\ Len(OptImages(Arg("website_b")).v) > 1
    /\ AllDistinct(OptImages(Arg("website_b")))
    /\ Report.scoreB = Frac(100, 1)

====
